---- MODULE Spec2Model ----
(***************************************************************************)
(* Verification model of the neofoodclub Rust core (src/src/lib.rs):       *)
(* the bit codec, the two hash codecs, the original probability model and  *)
(* the round table.  The library is a set of pure functions; the state of  *)
(* the model is the last call (fn, args, ret) and, when a call consumes the *)
(* result of the preceding call, the value that argument was computed from *)
(* (origin).  The NeoFoodClub objects of src/src/nfc.rs that exist are the  *)
(* sequence facades.                                                       *)
(*                                                                         *)
(* f64 values are modelled as exact rationals over a fixed denominator;    *)
(* the code's rounding error (about 1e-16 per operation) is far below the  *)
(* 1e-9 tolerance the properties are stated with.                          *)
(***************************************************************************)
EXTENDS Integers, Sequences, FiniteSets, TLC

VARIABLES fn, args, origin, ret, facades

vars == <<fn, args, origin, ret, facades>>

(***************************************************************************)
(* Program constants                                                       *)
(***************************************************************************)
BET_AMOUNT_MAX == 70304

BET_AMOUNT_MIN == 50

NumArenas == 5

NumPirates == 4

U8Max == 255

\* 0xF0000, 0xF000, 0xF00, 0xF0, 0xF
BIT_MASKS == <<983040, 61440, 3840, 240, 15>>

\* 0x88888, 0x44444, 0x22222, 0x11111
PIR_IB == <<559240, 279620, 139810, 69905>>

\* 0xFFFFF followed by PIR_IB
CONVERT_PIR_IB == <<1048575, 559240, 279620, 139810, 69905>>

(***************************************************************************)
(* Machine arithmetic on u32 words                                         *)
(***************************************************************************)
RECURSIVE BitAnd(_, _)
BitAnd(x, y) ==
    IF x = 0 \/ y = 0 THEN 0
    ELSE (x % 2) * (y % 2) + 2 * BitAnd(x \div 2, y \div 2)

RECURSIVE BitOr(_, _)
BitOr(x, y) ==
    IF x = 0 THEN y
    ELSE IF y = 0 THEN x
    ELSE (IF x % 2 = 1 \/ y % 2 = 1 THEN 1 ELSE 0) + 2 * BitOr(x \div 2, y \div 2)

RECURSIVE trailing_zeros(_)
trailing_zeros(x) == IF x % 2 = 1 THEN 0 ELSE 1 + trailing_zeros(x \div 2)

RECURSIVE Shl1(_)
Shl1(s) == IF s = 0 THEN 1 ELSE 2 * Shl1(s - 1)

\* Result of a call whose u8 arithmetic left the range 0..255: the build
\* decides between a panic (overflow checks on) and a wrapped value.
Overflowed == -1

(***************************************************************************)
(* Bit codec                                                               *)
(***************************************************************************)
\* index - 1 + arena * 4, as the mathematical value
pirate_shift_sub(index, arena) == (index - 1) + arena * 4

\* TRUE when arena * 4, the sum, or 19 - sum leaves the u8 range
pirate_binary_overflows(index, arena) ==
    /\ index # 0
    /\ \/ arena * 4 > U8Max
       \/ pirate_shift_sub(index, arena) > U8Max
       \/ 19 - pirate_shift_sub(index, arena) < 0

pirate_binary_rust_m1(index, arena) ==
    IF index = 0 THEN 0
    ELSE IF arena * 4 > U8Max \/ index + arena * 4 > U8Max \/ 19 - (index + arena * 4) < 0
         THEN Overflowed
         ELSE Shl1(19 - (index + arena * 4))

pirate_binary_rust(index, arena) ==
    IF index = 0 THEN 0
    ELSE IF pirate_binary_overflows(index, arena) THEN Overflowed
    ELSE Shl1(19 - pirate_shift_sub(index, arena))

RECURSIVE pirates_binary_loop(_, _, _)
pirates_binary_loop(bets_indices, arena, total) ==
    IF arena >= NumArenas THEN total
    ELSE pirates_binary_loop(bets_indices, arena + 1,
                             total + pirate_binary_rust(bets_indices[arena + 1], arena))

pirates_binary_rust_m1(bets_indices) ==
    pirates_binary_loop(bets_indices, 1, 0)

pirates_binary_rust(bets_indices) ==
    pirates_binary_loop(bets_indices, 0, 0)

binary_to_indices_val_m1(masked) == 4 - (trailing_zeros(masked) % 4) - 1

binary_to_indices_val(masked) == 4 - (trailing_zeros(masked) % 4)

binary_to_indices_rust(binary) ==
    [a \in 1..NumArenas |->
        LET masked == BitAnd(BIT_MASKS[a], binary)
        IN  IF masked = 0 THEN 0 ELSE binary_to_indices_val(masked)]

BetIndices == [1..NumArenas -> 0..NumPirates]

(***************************************************************************)
(* Calls of the bit codec.  A behaviour is one call on a drawn input,      *)
(* possibly followed by the call that consumes its result.                 *)
(***************************************************************************)
InitCall ==
    /\ fn = "none"
    /\ args = <<>>
    /\ origin = <<>>
    /\ facades = <<>>
    /\ ret = <<>>

CallPirateBinary ==
    \E index \in 0..NumPirates, arena \in 0..U8Max :
        /\ fn = "none"
        /\ fn' = "pirate_binary_rust"
        /\ args' = <<index, arena>>
        /\ origin' = <<>>
        /\ UNCHANGED facades
        /\ ret' = pirate_binary_rust(index, arena)

CallPiratesBinary ==
    \E b \in BetIndices :
        /\ fn = "none"
        /\ fn' = "pirates_binary_rust"
        /\ args' = b
        /\ origin' = <<>>
        /\ UNCHANGED facades
        /\ ret' = pirates_binary_rust(b)

\* binary_to_indices_rust applied to the result of pirates_binary_rust
CallBinaryToIndices ==
    /\ fn = "pirates_binary_rust"
    /\ fn' = "binary_to_indices_rust"
    /\ args' = <<ret>>
    /\ origin' = args
    /\ UNCHANGED facades
    /\ ret' = binary_to_indices_rust(ret)

NextBits == CallPirateBinary \/ CallPiratesBinary \/ CallBinaryToIndices

SpecBits == InitCall /\ [][NextBits]_vars

(***************************************************************************)
(* Properties of the bit codec                                             *)
(***************************************************************************)
RECURSIVE PopCount(_)
PopCount(x) == IF x = 0 THEN 0 ELSE (x % 2) + PopCount(x \div 2)

\* C1: binary_to_indices(pirates_binary(b)) = b for every 5-tuple b over
\* 0..4; pirates_binary([1,2,3,4,1]) = 0x84218 = 541208 and
\* binary_to_indices(0x84218) = [1,2,3,4,1].
C1_BinaryRoundTrip ==
    /\ (fn = "binary_to_indices_rust" /\ origin \in BetIndices) => ret = origin
    /\ (fn = "pirates_binary_rust" /\ args = <<1, 2, 3, 4, 1>>) => ret = 541208
    /\ (fn = "binary_to_indices_rust" /\ args = <<541208>>) => ret = <<1, 2, 3, 4, 1>>

C1_Witness ==
    /\ fn = "binary_to_indices_rust"
    /\ origin = <<1, 2, 3, 4, 1>>
    /\ args = <<541208>>

\* C2: pirate_binary(0, arena) = 0 for every arena; for index in 1..4 and
\* arena in 0..4 the result is the single bit 2^(19 - ((index-1) + arena*4)),
\* inside BIT_MASKS[arena] and PIR_IB[index-1], computed without leaving the
\* u8 range (shift in 0..19); pirate_binary(3, 2) = 0x200 = 512.
C2_PirateBinary ==
    fn = "pirate_binary_rust" =>
        LET index == args[1]
            arena == args[2]
            shift == 19 - ((index - 1) + arena * 4)
        IN  /\ index = 0 => ret = 0
            /\ (index \in 1..4 /\ arena \in 0..4) =>
                  /\ ret # Overflowed
                  /\ ~pirate_binary_overflows(index, arena)
                  /\ shift \in 0..19
                  /\ ret = 2 ^ shift
                  /\ PopCount(ret) = 1
                  /\ BitAnd(ret, BIT_MASKS[arena + 1]) = ret
                  /\ BitAnd(ret, PIR_IB[index]) = ret
            /\ (index = 3 /\ arena = 2) => ret = 512

C2_Witness ==
    /\ fn = "pirate_binary_rust"
    /\ args = <<3, 2>>
    /\ ret = 512

C2_WitnessZero ==
    /\ fn = "pirate_binary_rust"
    /\ args = <<0, 200>>
    /\ ret = 0

\* C3: the arithmetic sum pirates_binary computes equals the bitwise OR of
\* the five pirate_binary results, and every 4-bit arena group of the result
\* has at most one bit set.
C3_SumIsOr ==
    fn = "pirates_binary_rust" =>
        /\ ret = BitOr(pirate_binary_rust(args[1], 0),
                  BitOr(pirate_binary_rust(args[2], 1),
                   BitOr(pirate_binary_rust(args[3], 2),
                    BitOr(pirate_binary_rust(args[4], 3),
                          pirate_binary_rust(args[5], 4)))))
        /\ \A a \in 1..NumArenas : PopCount(BitAnd(ret, BIT_MASKS[a])) <= 1
        /\ \A a \in 1..NumArenas :
              (args[a] = 0) <=> (BitAnd(ret, BIT_MASKS[a]) = 0)

C3_Witness ==
    /\ fn = "pirates_binary_rust"
    /\ args = <<4, 0, 3, 1, 2>>
    /\ ret = 65536 + 512 + 128 + 4

(***************************************************************************)
(* Hash codec.  A string is the sequence of the code points of its         *)
(* characters ("a" = 97, "A" = 65).                                        *)
(***************************************************************************)
MaxBets == 3

MaxAmounts == 2

RECURSIVE Flatten(_)
Flatten(ss) == IF ss = <<>> THEN <<>> ELSE Head(ss) \o Flatten(Tail(ss))

\* slice.chunks(n): consecutive pieces of n elements, the last one shorter
RECURSIVE Chunks(_, _)
Chunks(s, n) ==
    IF Len(s) = 0 THEN <<>>
    ELSE IF Len(s) <= n THEN <<s>>
    ELSE <<SubSeq(s, 1, n)>> \o Chunks(SubSeq(s, n + 1, Len(s)), n)

RECURSIVE PadTo(_, _)
PadTo(s, n) == IF Len(s) % n = 0 THEN s ELSE PadTo(Append(s, 0), n)

bets_hash_value_rust(bets_indices) ==
    LET flattened == PadTo(Flatten(bets_indices), 2)
        chunks == Chunks(flattened, 2)
    IN  [k \in 1..Len(chunks) |->
            LET multiplier == chunks[k][1]
                adder == chunks[k][2]
                char_index == multiplier * 5 + adder
            IN  char_index + 97]

\* the decoded chunks of five before the all-zero ones are removed
bets_hash_to_chunks(bets_hash) ==
    LET indices == [k \in 1..Len(bets_hash) |-> bets_hash[k] - 97]
        output == Flatten([k \in 1..Len(indices) |->
                              <<indices[k] \div 5, indices[k] % 5>>])
    IN  Chunks(PadTo(output, 5), 5)

bets_hash_to_bet_indices_rust_m1(bets_hash) ==
    bets_hash_to_chunks(bets_hash)

bets_hash_to_bet_indices_rust(bets_hash) ==
    SelectSeq(bets_hash_to_chunks(bets_hash),
              LAMBDA x : \E k \in 1..Len(x) : x[k] > 0)

\* a..z = 97..122 for 0..25, A..Z = 65..90 for 26..51
amounts_letter(letter_index) ==
    IF letter_index < 26 THEN letter_index + 97 ELSE letter_index + 65 - 26

\* the inner loop: three letters, each inserted in front of the previous ones
RECURSIVE amounts_letters_loop(_, _, _)
amounts_letters_loop(this_letter_value, these_letters, n) ==
    IF n = 0 THEN these_letters
    ELSE amounts_letters_loop(this_letter_value \div 52,
                              <<amounts_letter(this_letter_value % 52)>> \o these_letters,
                              n - 1)

amounts_triple_m1(value) ==
    amounts_letters_loop(value % BET_AMOUNT_MAX, <<>>, 3)

amounts_triple_m2(value) ==
    LET w == (value % BET_AMOUNT_MAX) + BET_AMOUNT_MAX
    IN  <<amounts_letter(w % 52), amounts_letter((w \div 52) % 52),
          amounts_letter((w \div 2704) % 52)>>

amounts_triple_m3(value) ==
    amounts_letters_loop(((IF value < BET_AMOUNT_MIN THEN 0 ELSE value) % BET_AMOUNT_MAX)
                            + BET_AMOUNT_MAX, <<>>, 3)

\* the amount is reduced modulo twice BET_AMOUNT_MAX
amounts_triple_m4(value) ==
    amounts_letters_loop((value % (2 * BET_AMOUNT_MAX)) + BET_AMOUNT_MAX, <<>>, 3)

amounts_triple(value) ==
    amounts_letters_loop((value % BET_AMOUNT_MAX) + BET_AMOUNT_MAX, <<>>, 3)

bet_amounts_to_amounts_hash_rust(bet_amounts) ==
    Flatten([k \in 1..Len(bet_amounts) |-> amounts_triple(bet_amounts[k])])

\* an omitted amount in a decoded list
None == -1

amounts_digit(chr) == IF chr >= 97 THEN chr - 97 ELSE chr - 65 + 26

amounts_hash_to_bet_amounts(amounts_hash) ==
    LET triples == Chunks(amounts_hash, 3)
    IN  [k \in 1..Len(triples) |->
            LET t == amounts_digit(triples[k][1]) * 2704
                       + amounts_digit(triples[k][2]) * 52
                       + amounts_digit(triples[k][3])
            IN  IF t >= BET_AMOUNT_MAX THEN t - BET_AMOUNT_MAX ELSE None]

(***************************************************************************)
(* Calls of the hash codec                                                 *)
(***************************************************************************)
Bets == {b \in BetIndices : \E a \in 1..NumArenas : b[a] > 0}

BetPool ==
    { <<1, 0, 0, 0, 0>>, <<0, 0, 0, 0, 1>>, <<4, 4, 4, 4, 4>>,
      <<0, 0, 0, 0, 4>>, <<1, 2, 3, 4, 1>>, <<0, 3, 0, 2, 0>> }

\* an absent amount is passed as 0 (the argument is a Vec<u32>)
AmountPool ==
    { 0, 1, 30, 49, 50, 51, 8000, 70303, 70304, 70305, 70353, 70354,
      140607, 140608, 281216, 2147483647 }

CallBetsHashValueOne ==
    \E b \in Bets :
        /\ fn = "none"
        /\ fn' = "bets_hash_value_rust"
        /\ args' = <<b>>
        /\ origin' = <<>>
        /\ UNCHANGED facades
        /\ ret' = bets_hash_value_rust(<<b>>)

CallBetsHashValue ==
    \E n \in 2..MaxBets : \E L \in [1..n -> BetPool] :
        /\ fn = "none"
        /\ fn' = "bets_hash_value_rust"
        /\ args' = L
        /\ origin' = <<>>
        /\ UNCHANGED facades
        /\ ret' = bets_hash_value_rust(L)

\* bets_hash_to_bet_indices_rust applied to the result of bets_hash_value_rust
CallBetsHashToBetIndices ==
    /\ fn = "bets_hash_value_rust"
    /\ fn' = "bets_hash_to_bet_indices_rust"
    /\ args' = ret
    /\ origin' = args
    /\ UNCHANGED facades
    /\ ret' = bets_hash_to_bet_indices_rust(ret)

NextHash == CallBetsHashValueOne \/ CallBetsHashValue \/ CallBetsHashToBetIndices

SpecHash == InitCall /\ [][NextHash]_vars

CallBetAmountsToAmountsHash ==
    \E n \in 1..MaxAmounts : \E A \in [1..n -> AmountPool] :
        /\ fn = "none"
        /\ fn' = "bet_amounts_to_amounts_hash_rust"
        /\ args' = A
        /\ origin' = <<>>
        /\ UNCHANGED facades
        /\ ret' = bet_amounts_to_amounts_hash_rust(A)

\* amounts_hash_to_bet_amounts applied to the result of the encoder
CallAmountsHashToBetAmounts ==
    /\ fn = "bet_amounts_to_amounts_hash_rust"
    /\ fn' = "amounts_hash_to_bet_amounts"
    /\ args' = ret
    /\ origin' = args
    /\ UNCHANGED facades
    /\ ret' = amounts_hash_to_bet_amounts(ret)

NextAmounts == CallBetAmountsToAmountsHash \/ CallAmountsHashToBetAmounts

SpecAmounts == InitCall /\ [][NextAmounts]_vars

(***************************************************************************)
(* Properties of the hash codec                                            *)
(***************************************************************************)
\* C4: decoding bets_hash_value(L) yields exactly L, for an odd and for an
\* even flattened length; [[1,0,0,0,0]] encodes to "faa" and "faa" decodes to
\* [[1,0,0,0,0]], the all-zero chunk that the pad brings being dropped.
C4_BetsHashRoundTrip ==
    /\ fn = "bets_hash_to_bet_indices_rust" => ret = origin
    /\ (fn = "bets_hash_value_rust" /\ args = << <<1, 0, 0, 0, 0>> >>)
          => ret = <<102, 97, 97>>
    /\ (fn = "bets_hash_to_bet_indices_rust" /\ args = <<102, 97, 97>>)
          => /\ ret = << <<1, 0, 0, 0, 0>> >>
             /\ bets_hash_to_chunks(args) = << <<1, 0, 0, 0, 0>>, <<0, 0, 0, 0, 0>> >>

C4_Witness ==
    /\ fn = "bets_hash_to_bet_indices_rust"
    /\ args = <<102, 97, 97>>
    /\ origin = << <<1, 0, 0, 0, 0>> >>
    /\ Len(bets_hash_to_chunks(args)) = 2
    /\ Len(ret) = 1

C4_WitnessEven ==
    /\ fn = "bets_hash_to_bet_indices_rust"
    /\ Len(origin) = 2
    /\ Len(ret) = 2

normalize(A) == [k \in 1..Len(A) |-> IF A[k] < BET_AMOUNT_MIN THEN 0 ELSE A[k]]

InC5Domain(A) ==
    \A k \in 1..Len(A) :
        A[k] = 0 \/ (A[k] >= BET_AMOUNT_MIN /\ A[k] <= 4 * BET_AMOUNT_MAX)

\* C5 as stated: for every amount list A with entries absent or in
\* [50, 281216], decoding the amounts hash of A returns normalize(A), i.e.
\* every entry of at least 50 comes back unchanged.
C5_Original ==
    (fn = "amounts_hash_to_bet_amounts" /\ InC5Domain(origin))
        => ret = normalize(origin)

\* C5 amended: for every amount list A with entries absent or in
\* [50, 70303], decoding the amounts hash of A returns normalize(A); an entry
\* of 70304 or more does not come back: the value returned for it is below
\* 70304 and congruent to it modulo 70304.
C5_AmountsRoundTrip ==
    (fn = "amounts_hash_to_bet_amounts" /\ InC5Domain(origin)) =>
        /\ Len(ret) = Len(origin)
        /\ \A k \in 1..Len(origin) :
              /\ origin[k] < BET_AMOUNT_MAX => ret[k] = normalize(origin)[k]
              /\ origin[k] >= BET_AMOUNT_MAX =>
                    /\ ret[k] # origin[k]
                    /\ ret[k] \in 0..(BET_AMOUNT_MAX - 1)
                    /\ (origin[k] - ret[k]) % BET_AMOUNT_MAX = 0

C5_Witness ==
    /\ fn = "amounts_hash_to_bet_amounts"
    /\ origin = <<70303, 140608>>
    /\ ret = <<70303, 0>>

\* C6 as stated: bet_amounts_to_amounts_hash([8000]) is "bpa".
C6_Original ==
    (fn = "bet_amounts_to_amounts_hash_rust" /\ args = <<8000>>)
        => ret = <<98, 112, 97>>

\* C6 amended: bet_amounts_to_amounts_hash([8000]) is "CXS", the three
\* base-52 digits 28, 49, 44 of (8000 mod 70304) + 70304 = 78304, most
\* significant first, with a..z = 0..25 and A..Z = 26..51.
C6_Amounts8000 ==
    (fn = "bet_amounts_to_amounts_hash_rust" /\ args = <<8000>>) =>
        /\ ret = <<67, 88, 83>>
        /\ 28 * 52 * 52 + 49 * 52 + 44 = (8000 % 70304) + 70304
        /\ ret = <<65 + (28 - 26), 65 + (49 - 26), 65 + (44 - 26)>>

C6_Witness ==
    /\ fn = "bet_amounts_to_amounts_hash_rust"
    /\ args = <<8000>>
    /\ ret = <<67, 88, 83>>

C24_TripleIsExact ==
    fn = "bet_amounts_to_amounts_hash_rust" =>
        /\ Len(ret) = 3 * Len(args)
        /\ \A k \in 1..Len(args) :
              LET w == (args[k] % BET_AMOUNT_MAX) + BET_AMOUNT_MAX
                  triple == SubSeq(ret, 3 * k - 2, 3 * k)
              IN  /\ w >= 26 * 52 * 52
                  /\ w < 52 * 52 * 52
                  /\ \A i \in 1..3 : triple[i] \in (97..122) \cup (65..90)
                  /\ amounts_digit(triple[1]) * 52 * 52 + amounts_digit(triple[2]) * 52
                        + amounts_digit(triple[3]) = w
                  /\ triple[1] \in 65..90

\* 70303 is encoded as "ZZZ", three times the digit 51 of 140607; the next
\* amount is the largest of the model
C24_Witness ==
    /\ fn = "bet_amounts_to_amounts_hash_rust"
    /\ args = <<70303, 2147483647>>
    /\ Len(ret) = 6
    /\ SubSeq(ret, 1, 3) = <<90, 90, 90>>

(***************************************************************************)
(* Probability engine (original model).  An f64 x is modelled as the       *)
(* integer x * ProbDen; every value the code computes for odds in 2..13 is *)
(* such an integer.  Where two values that the code compares with <, > or  *)
(* == are exactly equal, the rounding of the f64 operations decides the    *)
(* comparison, so both results are outcomes.                               *)
(***************************************************************************)
\* lcm(1..14, 20), times 2 for the mean and 12 for the division by 1..4
ProbDen == 8 * 9 * 5 * 7 * 11 * 13 * 2 * 12

Max2(a, b) == IF a >= b THEN a ELSE b

Min2(a, b) == IF a <= b THEN a ELSE b

Sum4(f) == f[1] + f[2] + f[3] + f[4]

FloatGt(a, b) == IF a = b THEN {TRUE, FALSE} ELSE {a > b}

FloatLt(a, b) == IF a = b THEN {TRUE, FALSE} ELSE {a < b}

FloatEq(a, b) == IF a = b THEN {TRUE, FALSE} ELSE {FALSE}

initial_min(pirate_odd) ==
    IF pirate_odd = 13 THEN 0
    ELSE IF pirate_odd = 2 THEN ProbDen \div 3
    ELSE ProbDen \div (1 + pirate_odd)

initial_max(pirate_odd) ==
    IF pirate_odd = 13 THEN ProbDen \div 13
    ELSE IF pirate_odd = 2 THEN ProbDen
    ELSE ProbDen \div pirate_odd

\* <<F(1), F(2), F(3), F(4)>>: one value per pirate of an arena
Row4(F(_)) == <<F(1), F(2), F(3), F(4)>>

\* o: the opening odds of the four pirates of one arena
min_prob(o) == Sum4(Row4(LAMBDA p : initial_min(o[p])))

max_prob(o) == Sum4(Row4(LAMBDA p : initial_max(o[p])))

arena_min(o) ==
    LET total == max_prob(o)
    IN  Row4(LAMBDA p : Max2(initial_min(o[p]), ProbDen + initial_max(o[p]) - total))

arena_max(o) ==
    LET total == min_prob(o)
    IN  Row4(LAMBDA p : Min2(initial_max(o[p]), ProbDen + initial_min(o[p]) - total))

initial_std_m1(o, mn, mx) ==
    Row4(LAMBDA p : IF o[p] = 13 THEN ProbDen \div 20 ELSE mx[p])

initial_std(o, mn, mx) ==
    Row4(LAMBDA p : IF o[p] = 13 THEN ProbDen \div 20 ELSE (mn[p] + mx[p]) \div 2)

\* the pass goes on to the next level after a level was applied
RECURSIVE rectify_m1(_, _, _, _, _)
rectify_m1(o, mn, mx, std, rectify_level) ==
    IF rectify_level >= 13 THEN {std}
    ELSE
        LET in_R == Row4(LAMBDA p : o[p] <= rectify_level)
            rectify_count == Sum4(Row4(LAMBDA p : IF in_R[p] THEN 1 ELSE 0))
            std_total == Sum4(std)
            rectify_value == Sum4(Row4(LAMBDA p : IF in_R[p] THEN std[p] - mn[p] ELSE 0))
            slack == Row4(LAMBDA p : IF in_R[p] THEN mx[p] - mn[p] ELSE ProbDen)
            max_rectify_value ==
                Min2(Min2(ProbDen, slack[1]), Min2(slack[2], Min2(slack[3], slack[4])))
            is_one == FloatEq(std_total, ProbDen)
            skips == { c1 \/ rectify_count = 0 \/ c3 :
                         c1 \in FloatGt(std_total - rectify_value, ProbDen),
                         c3 \in FloatLt(max_rectify_value * rectify_count,
                                        rectify_value + ProbDen - std_total) }
            new_value == (rectify_value + ProbDen - std_total) \div rectify_count
            rectified == Row4(LAMBDA p : IF in_R[p] THEN mn[p] + new_value ELSE std[p])
        IN  (IF TRUE \in is_one THEN {std} ELSE {})
            \cup (IF FALSE \in is_one /\ FALSE \in skips
                  THEN rectify_m1(o, mn, mx, rectified, rectify_level + 1) ELSE {})
            \cup (IF FALSE \in is_one /\ TRUE \in skips
                  THEN rectify_m1(o, mn, mx, std, rectify_level + 1) ELSE {})

\* the rectification pass from rectify_level on: the set of the rows it can
\* end with
RECURSIVE rectify(_, _, _, _, _)
rectify(o, mn, mx, std, rectify_level) ==
    IF rectify_level >= 13 THEN {std}
    ELSE
        LET in_R == Row4(LAMBDA p : o[p] <= rectify_level)
            rectify_count == Sum4(Row4(LAMBDA p : IF in_R[p] THEN 1 ELSE 0))
            std_total == Sum4(std)
            rectify_value == Sum4(Row4(LAMBDA p : IF in_R[p] THEN std[p] - mn[p] ELSE 0))
            slack == Row4(LAMBDA p : IF in_R[p] THEN mx[p] - mn[p] ELSE ProbDen)
            max_rectify_value ==
                Min2(Min2(ProbDen, slack[1]), Min2(slack[2], Min2(slack[3], slack[4])))
            is_one == FloatEq(std_total, ProbDen)
            skips == { c1 \/ rectify_count = 0 \/ c3 :
                         c1 \in FloatGt(std_total - rectify_value, ProbDen),
                         c3 \in FloatLt(max_rectify_value * rectify_count,
                                        rectify_value + ProbDen - std_total) }
            new_value == (rectify_value + ProbDen - std_total) \div rectify_count
            rectified == Row4(LAMBDA p : IF in_R[p] THEN mn[p] + new_value ELSE std[p])
        IN  (IF TRUE \in is_one THEN {std} ELSE {})
            \cup (IF FALSE \in is_one /\ FALSE \in skips THEN {rectified} ELSE {})
            \cup (IF FALSE \in is_one /\ TRUE \in skips
                  THEN rectify(o, mn, mx, std, rectify_level + 1) ELSE {})

\* the rows std[arena] can end as, column 0 included
arena_probabilities(o) ==
    LET mn == arena_min(o)
        mx == arena_max(o)
    IN  { [p \in 0..NumPirates |-> IF p = 0 THEN ProbDen ELSE r[p]] :
            r \in rectify(o, mn, mx, initial_std(o, mn, mx), 2) }

\* the matrices make_probabilities_rust can return for opening_odds: the
\* arenas are processed one after the other and independently
make_probabilities_rust(opening_odds) ==
    LET rows(a) == arena_probabilities(Row4(LAMBDA p : opening_odds[a][p]))
    IN  { <<r0, r1, r2, r3, r4>> :
            r0 \in rows(0), r1 \in rows(1), r2 \in rows(2), r3 \in rows(3), r4 \in rows(4) }

(***************************************************************************)
(* Calls of the probability engine                                         *)
(***************************************************************************)
MinOdds == 2

MaxOddsValue == 13

\* row rotated by a places
Rotate(row, a) == Row4(LAMBDA p : row[((p - 1 + a) % NumPirates) + 1])

\* row as the number with the base-16 digits row[1] .. row[4]
RowKey(row) == ((row[1] * 16 + row[2]) * 16 + row[3]) * 16 + row[4]

\* One row of each class of rows equal up to rotation: arenas 0..3 of
\* RotatedOdds then range over every row of four odds in 2..13.
OddsRows ==
    { row \in [1..NumPirates -> MinOdds..MaxOddsValue] :
        \A a \in 1..(NumPirates - 1) : RowKey(row) <= RowKey(Rotate(row, a)) }

\* the odds matrix whose arena a holds row rotated by a places; column 0 is 1
RotatedOdds(row) ==
    [a \in 0..(NumArenas - 1) |->
        [p \in 0..NumPirates |-> IF p = 0 THEN 1 ELSE Rotate(row, a)[p]]]

CallMakeProbabilities ==
    \E row \in OddsRows :
        /\ fn = "none"
        /\ fn' = "make_probabilities_rust"
        /\ args' = RotatedOdds(row)
        /\ origin' = <<>>
        /\ UNCHANGED facades
        /\ ret' \in make_probabilities_rust(RotatedOdds(row))

NextProb == CallMakeProbabilities

SpecProb == InitCall /\ [][NextProb]_vars

(***************************************************************************)
(* Properties of the probability engine                                    *)
(***************************************************************************)
ArenaOdds(a) == Row4(LAMBDA p : args[a][p])

\* row a (0-based) of the returned matrix
StdRow(a) == ret[a + 1]

\* sum of the initial minimum bounds <= 1 <= sum of the initial maximum bounds
AdmitsDistribution(o) == min_prob(o) <= ProbDen /\ ProbDen <= max_prob(o)

\* C8: for every arena whose opening odds admit a consistent distribution
\* the probabilities of its pirates 1..4 sum to 1, and column 0 of every row
\* stays 1.0.
C8_Original ==
    fn = "make_probabilities_rust" =>
        \A a \in 0..(NumArenas - 1) :
            /\ StdRow(a)[0] = ProbDen
            /\ AdmitsDistribution(ArenaOdds(a)) =>
                  StdRow(a)[1] + StdRow(a)[2] + StdRow(a)[3] + StdRow(a)[4] = ProbDen

AllTwos(a) == \A p \in 1..NumPirates : args[a][p] = 2

\* C9 as stated: for an arena whose four pirates all have opening odds 2 the
\* initial bounds are min = 1/3 and max = 1 and the four probabilities end
\* as 0.25 each.
C9_Original ==
    fn = "make_probabilities_rust" =>
        \A a \in 0..(NumArenas - 1) :
            AllTwos(a) =>
                /\ initial_min(2) * 3 = ProbDen
                /\ initial_max(2) = ProbDen
                /\ \A p \in 1..NumPirates : StdRow(a)[p] * 4 = ProbDen

\* C9 amended: for an arena whose four pirates all have opening odds 2 the
\* initial bounds are min = 1/3 and max = 1; the tightening leaves min = 1/3
\* and lowers max to 0, every std starts at 1/6, no rectify level passes, and
\* the four probabilities end as 1/6 each (sum 2/3).
C9_AllTwos ==
    fn = "make_probabilities_rust" =>
        \A a \in 0..(NumArenas - 1) :
            AllTwos(a) =>
                /\ initial_min(2) * 3 = ProbDen
                /\ initial_max(2) = ProbDen
                /\ \A p \in 1..NumPirates :
                      /\ arena_min(ArenaOdds(a))[p] * 3 = ProbDen
                      /\ arena_max(ArenaOdds(a))[p] = 0
                      /\ StdRow(a)[p] * 6 = ProbDen

C9_Witness ==
    /\ fn = "make_probabilities_rust"
    /\ AllTwos(0)
    /\ StdRow(0)[1] * 6 = ProbDen
    /\ StdRow(0)[1] + StdRow(0)[2] + StdRow(0)[3] + StdRow(0)[4] < ProbDen

\* the pirates of an arena with odds o that a rectify level covers
LevelR(o, level) == {p \in 1..NumPirates : o[p] <= level}

\* the initial values of an arena, before the rectification pass
InitialStd(o) == initial_std(o, arena_min(o), arena_max(o))

\* rho of a level: the sum of std - min over the pirates the level covers
Rho(o, level) ==
    Sum4(Row4(LAMBDA p : IF p \in LevelR(o, level)
                         THEN InitialStd(o)[p] - arena_min(o)[p] ELSE 0))

\* m of a level: the least max - min over the pirates it covers, at most 1
LevelM(o, level) ==
    LET least[p \in 0..NumPirates] ==
            IF p = 0 THEN ProbDen
            ELSE IF p \in LevelR(o, level)
                 THEN Min2(least[p - 1], arena_max(o)[p] - arena_min(o)[p])
                 ELSE least[p - 1]
    IN  least[NumPirates]

\* the condition of a level fails on the initial values (an exact tie of a
\* strict comparison of the code is decided by the rounding, either way)
LevelFails(o, level) ==
    LET total == Sum4(InitialStd(o))
        count == Cardinality(LevelR(o, level))
    IN  \/ total - Rho(o, level) >= ProbDen
        \/ count = 0
        \/ LevelM(o, level) * count <= Rho(o, level) + ProbDen - total

LevelPasses(o, level) ==
    LET total == Sum4(InitialStd(o))
        count == Cardinality(LevelR(o, level))
    IN  /\ total - Rho(o, level) <= ProbDen
        /\ count > 0
        /\ LevelM(o, level) * count >= Rho(o, level) + ProbDen - total

\* the row after the level is applied to the initial values
LevelApplied(o, level) ==
    LET total == Sum4(InitialStd(o))
        count == Cardinality(LevelR(o, level))
    IN  [p \in 0..NumPirates |->
            IF p = 0 THEN ProbDen
            ELSE IF p \in LevelR(o, level)
                 THEN arena_min(o)[p] + (Rho(o, level) + ProbDen - total) \div count
                 ELSE InitialStd(o)[p]]

InitialRow(o) == [p \in 0..NumPirates |-> IF p = 0 THEN ProbDen ELSE InitialStd(o)[p]]

RectifyLevels == 2..12

RoundRows == 3124

StdsDen == 2 * 2

StdsOne == StdsDen * StdsDen * StdsDen * StdsDen * StdsDen

\* a loop over 0..5 that yields a sequence per value: the concatenation
Range5(F(_)) == F(0) \o F(1) \o F(2) \o F(3) \o F(4)

\* iproduct!(0..5, 0..5, 0..5, 0..5, 0..5): the last range varies fastest
iproduct5 ==
    Range5(LAMBDA a : Range5(LAMBDA b : Range5(LAMBDA c :
        Range5(LAMBDA d : Range5(LAMBDA e : << <<a, b, c, d, e>> >>)))))

iproduct5_skip1_m1 == iproduct5

\* .skip(1)
iproduct5_skip1 == Tail(iproduct5)

\* the inner loop over the arenas of one row: <<total_bin, total_stds, total_odds>>
RECURSIVE round_row(_, _, _, _, _, _, _)
round_row(stds, odds, t, arena, total_bin, total_stds, total_odds) ==
    IF arena >= NumArenas THEN <<total_bin, total_stds, total_odds>>
    ELSE LET index == t[arena + 1]
         IN  IF index = 0
             THEN round_row(stds, odds, t, arena + 1, total_bin, total_stds, total_odds)
             ELSE round_row(stds, odds, t, arena + 1,
                            total_bin + 2 ^ (19 - (index - 1 + arena * 4)),
                            (total_stds * stds[arena][index]) \div StdsDen,
                            total_odds * odds[arena][index])

\* the quotient rounded down instead of up
round_maxbet_m1(total_odds) == 1000000 \div total_odds

\* (1_000_000.0 / total_odds as f64).ceil() as u32.  A quotient that is not
\* an integer lies at least 1/total_odds > 2.6e-6 from the next integer and
\* the f64 division is off by less than 1.2e-10, so the ceiling is the exact
\* one.
round_maxbet(total_odds) == (1000000 + total_odds - 1) \div total_odds

\* the rows the loop computes for the tuples lo..hi of the iterator, in order
RECURSIVE round_rows(_, _, _, _, _)
round_rows(stds, odds, tuples, lo, hi) ==
    IF lo > hi THEN <<>>
    ELSE IF lo = hi THEN <<round_row(stds, odds, tuples[lo], 0, 0, StdsOne, 1)>>
    ELSE LET mid == (lo + hi) \div 2
         IN  round_rows(stds, odds, tuples, lo, mid)
                \o round_rows(stds, odds, tuples, mid + 1, hi)

\* The five arrays (_bins, _stds, _odds, _ers, _maxbets), or Overflowed when
\* the loop writes past the 3124 slots (a panic).
make_round_dicts_rust(stds, odds) ==
    LET tuples == iproduct5_skip1
        rows == round_rows(stds, odds, tuples, 1, Len(tuples))
        slot(i, F(_)) == IF i < Len(rows) THEN F(rows[i + 1]) ELSE 0
    IN  IF Len(rows) > RoundRows THEN <<Overflowed>>
        ELSE << [i \in 0..(RoundRows - 1) |-> slot(i, LAMBDA r : r[1])],
                [i \in 0..(RoundRows - 1) |-> slot(i, LAMBDA r : r[2])],
                [i \in 0..(RoundRows - 1) |-> slot(i, LAMBDA r : r[3])],
                [i \in 0..(RoundRows - 1) |-> slot(i, LAMBDA r : r[2] * r[3])],
                [i \in 0..(RoundRows - 1) |-> slot(i, LAMBDA r : round_maxbet(r[3]))] >>

(***************************************************************************)
(* Calls of make_round_dicts_rust                                          *)
(***************************************************************************)
\* odds matrices: every arena holds a rotation of a row over {2, 5, 13}
RoundOdds == { RotatedOdds(row) : row \in [1..NumPirates -> {2, 5, 13}] }

\* every pirate at 1/4, or the pirates of every arena at 2/4, 1/4, 1/4, 0
RoundStds ==
    { [a \in 0..(NumArenas - 1) |-> <<1, 1, 1, 1>>],
      [a \in 0..(NumArenas - 1) |-> <<2, 1, 1, 0>>] }

CallMakeRoundDicts ==
    \E stds \in RoundStds, odds \in RoundOdds :
        /\ fn = "none"
        /\ fn' = "make_round_dicts_rust"
        /\ args' = <<stds, odds>>
        /\ origin' = <<>>
        /\ UNCHANGED facades
        /\ ret' = make_round_dicts_rust(stds, odds)

NextRound == CallMakeRoundDicts

SpecRound == InitCall /\ [][NextRound]_vars

(***************************************************************************)
(* Properties of the round table                                           *)
(***************************************************************************)
\* the base-5 digits of n, arena 0 most significant
Digits5(n) == <<n \div 625, (n \div 125) % 5, (n \div 25) % 5, (n \div 5) % 5, n % 5>>

\* the product of the odds of the pirates t selects, from arena a (1-based) on
RECURSIVE OddsProduct(_, _, _)
OddsProduct(odds, t, a) ==
    IF a > NumArenas THEN 1
    ELSE (IF t[a] = 0 THEN 1 ELSE odds[a - 1][t[a]]) * OddsProduct(odds, t, a + 1)

\* C10: the round table has exactly 3,124 rows, in the lexicographic order
\* of (a,b,c,d,e) with e varying fastest and the all-zero tuple skipped: row
\* i holds the pirates_binary of the base-5 digits of i+1, the bins are
\* non-zero and pairwise distinct, and odds[i] is the product of the odds of
\* the selected pirates (factor 1 for an arena without a pick).
C10_RoundTable ==
    fn = "make_round_dicts_rust" =>
        /\ Len(ret) = 5
        /\ \A k \in 1..5 : DOMAIN ret[k] = 0..3123
        /\ \A i \in 0..3123 :
              /\ ret[1][i] = pirates_binary_rust(Digits5(i + 1))
              /\ ret[1][i] # 0
              /\ ret[3][i] = OddsProduct(args[2], Digits5(i + 1), 1)
        /\ Cardinality({ret[1][i] : i \in 0..3123}) = 3124

C10_Witness ==
    /\ fn = "make_round_dicts_rust"
    /\ args[2] = RotatedOdds(<<2, 5, 13, 13>>)
    /\ ret[1][0] = 8
    /\ ret[1][3123] = 69905
    /\ ret[3][3123] = 13 * 2 * 5 * 13 * 13

\* the largest product of five odds
MaxOddsProduct ==
    MaxOddsValue * MaxOddsValue * MaxOddsValue * MaxOddsValue * MaxOddsValue

\* C11: for every row i of the round table, the per-pirate odds being in
\* 2..13, maxbets[i] is the ceiling of 1,000,000 / odds[i], that is
\* maxbets[i] * odds[i] >= 1,000,000 > (maxbets[i] - 1) * odds[i], with
\* maxbets[i] >= 1; odds[i] is at least 1 and at most 13^5 = 371,293, which
\* is below 2^32 (its quotient by 2^16 is below 2^16).
C11_MaxBets ==
    fn = "make_round_dicts_rust" =>
        \A i \in 0..(RoundRows - 1) :
            /\ ret[3][i] >= 1
            /\ ret[3][i] <= MaxOddsProduct
            /\ ret[3][i] \div 65536 < 65536
            /\ ret[5][i] >= 1
            /\ ret[5][i] * ret[3][i] >= 1000000
            /\ 1000000 > (ret[5][i] - 1) * ret[3][i]

\* all odds 13: the last row has the odds 13^5 and the cap 3, the first row
\* (pirate 4 of arena 4 alone) the odds 13 and the cap 76,924
C11_Witness ==
    /\ fn = "make_round_dicts_rust"
    /\ args[2] = RotatedOdds(<<13, 13, 13, 13>>)
    /\ ret[3][3123] = 371293
    /\ ret[5][3123] = 3
    /\ ret[3][0] = 13
    /\ ret[5][0] = 76924

(***************************************************************************)
(* Odds aggregator: expand_ib_object, ib_prob, build_chance_objects_rust.  *)
(* Math::ib_doable, Math::ib_prob and Math::expand_ib_object of            *)
(* src/src/math.rs are the same code.  A probability is an integer number  *)
(* of sixtieths; ib_prob, being a product over the five arenas, and the    *)
(* fields of a Chance are integers over 60^5.                              *)
(***************************************************************************)
ChanceDen == 3 * 4 * 5

\* 1.0 as a product of five arena probabilities
ChanceOne == ChanceDen * ChanceDen * ChanceDen * ChanceDen * ChanceDen

RECURSIVE BitXor(_, _)
BitXor(x, y) ==
    IF x = 0 THEN y
    ELSE IF y = 0 THEN x
    ELSE ((x + y) % 2) + 2 * BitXor(x \div 2, y \div 2)

\* x & !y
BitAndNot(x, y) == x - BitAnd(x, y)

\* the elements of a set of numbers in ascending order
RECURSIVE sorted(_)
sorted(S) ==
    IF S = {} THEN <<>>
    ELSE LET least == CHOOSE x \in S : \A y \in S : x <= y
         IN  <<least>> \o sorted(S \ {least})

ib_doable(binary) ==
    \A a \in 1..NumArenas : BitAnd(binary, BIT_MASKS[a]) # 0

\* the fourth pirate is left out
ib_prob_m1(binary, probabilities) ==
    LET ar_prob(x) ==
            Sum4(Row4(LAMBDA y :
                IF y < NumPirates /\ BitAnd(BitAnd(binary, BIT_MASKS[x]), PIR_IB[y]) > 0
                THEN probabilities[x][y] ELSE 0))
    IN  ar_prob(1) * ar_prob(2) * ar_prob(3) * ar_prob(4) * ar_prob(5)

\* x and y count from 1 here: probabilities[x] is the row of arena x - 1 and
\* PIR_IB[y] the mask of pirate y, whose probability is in column y
ib_prob(binary, probabilities) ==
    LET ar_prob(x) ==
            Sum4(Row4(LAMBDA y :
                IF BitAnd(BitAnd(binary, BIT_MASKS[x]), PIR_IB[y]) > 0
                THEN probabilities[x][y] ELSE 0))
    IN  ar_prob(1) * ar_prob(2) * ar_prob(3) * ar_prob(4) * ar_prob(5)

\* the ib of one bet: the loop over bet_value zipped with BIT_MASKS
RECURSIVE bet_ib(_, _, _)
bet_ib(bet_value, a, ib) ==
    IF a > NumArenas \/ a > Len(bet_value) THEN ib
    ELSE bet_ib(bet_value, a + 1,
                BitOr(ib, BitAnd(CONVERT_PIR_IB[bet_value[a] + 1], BIT_MASKS[a])))

\* bets_to_ib after the sort: the pairs <<ib, winnings>> in ascending order
\* of ib, the odds of the bets with the same ib summed
RECURSIVE sum_bet_odds(_, _, _, _)
sum_bet_odds(bets, bet_odds, ib, key) ==
    IF key > Len(bets) THEN 0
    ELSE (IF bet_ib(bets[key], 1, 0) = ib THEN bet_odds[key] ELSE 0)
            + sum_bet_odds(bets, bet_odds, ib, key + 1)

\* bets_to_ib without the sort: the pairs in the order the portfolio lists
\* the bets in
bets_to_ib_m1(bets, bet_odds) ==
    LET first == sorted({ key \in 1..Len(bets) :
                            \A j \in 1..(key - 1) :
                                bet_ib(bets[j], 1, 0) # bet_ib(bets[key], 1, 0) })
    IN  [k \in 1..Len(first) |->
            <<bet_ib(bets[first[k]], 1, 0),
              sum_bet_odds(bets, bet_odds, bet_ib(bets[first[k]], 1, 0), 1)>>]

bets_to_ib(bets, bet_odds) ==
    LET ibs == sorted({ bet_ib(bets[key], 1, 0) : key \in 1..Len(bets) })
    IN  [k \in 1..Len(ibs) |-> <<ibs[k], sum_bet_odds(bets, bet_odds, ibs[k], 1)>>]

\* res.remove(&key)
map_remove(map, key) == [k \in (DOMAIN map) \ {key} |-> map[k]]

\* res.insert(key, value) on the loop state st; st.overwritten counts the
\* inserts that found key already in the map
map_insert(st, key, value) ==
    [st EXCEPT !.res = [k \in (DOMAIN st.res) \cup {key} |->
                            IF k = key THEN value ELSE st.res[k]],
               !.overwritten = st.overwritten + (IF key \in DOMAIN st.res THEN 1 ELSE 0)]

\* ib_key is not narrowed after an insert
RECURSIVE drain_arenas_m1(_, _, _, _, _)
drain_arenas_m1(st, ib_key, com, val_key, a) ==
    IF a > NumArenas THEN st
    ELSE LET ar == BIT_MASKS[a]
             tst == BitXor(ib_key, BitAnd(com, ar))
         IN  IF ~ib_doable(tst)
             THEN drain_arenas_m1(st, ib_key, com, val_key, a + 1)
             ELSE drain_arenas_m1(map_insert(st, tst, val_key), ib_key, com, val_key, a + 1)

\* for ar in BIT_MASKS, from arena a on
RECURSIVE drain_arenas(_, _, _, _, _)
drain_arenas(st, ib_key, com, val_key, a) ==
    IF a > NumArenas THEN st
    ELSE LET ar == BIT_MASKS[a]
             tst == BitXor(ib_key, BitAnd(com, ar))
         IN  IF ~ib_doable(tst)
             THEN drain_arenas(st, ib_key, com, val_key, a + 1)
             ELSE drain_arenas(map_insert(st, tst, val_key),
                               BitOr(BitAndNot(ib_key, ar), BitAnd(com, ar)),
                               com, val_key, a + 1)

\* the value of the key is lost: the narrowed key holds the bet's payout only
drain_key_m1(st, ib_key) ==
    LET com == BitAnd(st.ib_bet, ib_key)
        val_key == st.res[ib_key]
        removed == [st EXCEPT !.res = map_remove(st.res, ib_key)]
        inserted == map_insert(removed, com, st.winnings)
    IN  drain_arenas(inserted, ib_key, com, val_key, 1)

\* the body of the loop over drained_elements for one ib_key
drain_key(st, ib_key) ==
    LET com == BitAnd(st.ib_bet, ib_key)
        val_key == st.res[ib_key]
        removed == [st EXCEPT !.res = map_remove(st.res, ib_key)]
        inserted == map_insert(removed, com, st.winnings + val_key)
    IN  drain_arenas(inserted, ib_key, com, val_key, 1)

\* res starts with a payout of 1
expand_start_m1(bets, bet_odds) ==
    [res |-> [k \in {1048575} |-> 1], overwritten |-> 0,
     bets_to_ib |-> bets_to_ib(bets, bet_odds),
     ib_bet |-> 0, winnings |-> 0, drained_elements |-> {}]

\* the locals of expand_ib_object when the loop over bets_to_ib starts
expand_start(bets, bet_odds) ==
    [res |-> [k \in {1048575} |-> 0], overwritten |-> 0,
     bets_to_ib |-> bets_to_ib(bets, bet_odds),
     ib_bet |-> 0, winnings |-> 0, drained_elements |-> {}]

\* an insert that keeps an entry of the same key instead of adding to it
btree_add_m1(table, key, value) ==
    LET below == SelectSeq(table, LAMBDA e : e[1] < key)
        above == SelectSeq(table, LAMBDA e : e[1] >= key)
    IN  below \o << <<key, value>> >> \o above

\* *win_table.entry(key).or_insert(0.0) += value, the BTreeMap being the
\* sequence of its entries <<key, value>> in ascending order of key
btree_add(table, key, value) ==
    LET below == SelectSeq(table, LAMBDA e : e[1] < key)
        same == SelectSeq(table, LAMBDA e : e[1] = key)
        above == SelectSeq(table, LAMBDA e : e[1] > key)
    IN  below \o << <<key, (IF same = <<>> THEN 0 ELSE same[1][2]) + value>> >> \o above

\* the loop over expanded; keys is the order in which the HashMap yields
\* its keys (the sums are exact here, so the order does not show)
RECURSIVE win_table(_, _, _, _)
win_table(expanded, probabilities, keys, table) ==
    IF keys = <<>> THEN table
    ELSE win_table(expanded, probabilities, Tail(keys),
                   btree_add(table, expanded[Head(keys)],
                             ib_prob(Head(keys), probabilities)))

\* tail is lowered before the Chance is pushed
RECURSIVE chances_loop_m1(_, _, _, _)
chances_loop_m1(table, cumulative, tail, chances) ==
    IF table = <<>> THEN chances
    ELSE LET key == Head(table)[1]
             value == Head(table)[2]
         IN  chances_loop_m1(Tail(table), cumulative + value, tail - value,
                          Append(chances,
                                 [value |-> key, probability |-> value,
                                  cumulative |-> cumulative + value, tail |-> tail - value]))

\* for (key, value) in win_table.into_iter()
RECURSIVE chances_loop(_, _, _, _)
chances_loop(table, cumulative, tail, chances) ==
    IF table = <<>> THEN chances
    ELSE LET key == Head(table)[1]
             value == Head(table)[2]
         IN  chances_loop(Tail(table), cumulative + value, tail - value,
                          Append(chances,
                                 [value |-> key, probability |-> value,
                                  cumulative |-> cumulative + value, tail |-> tail]))

\* build_chance_objects_rust from the expanded map on: its locals expanded
\* and chances when it returns chances
build_chances(expanded, probabilities) ==
    [expanded |-> expanded,
     chances |-> chances_loop(win_table(expanded, probabilities,
                                        sorted(DOMAIN expanded), <<>>),
                              0, ChanceOne, <<>>)]

(***************************************************************************)
(* Calls of build_chance_objects_rust.  The call runs expand_ib_object     *)
(* first: fn = "expand_ib_object" while its loops run and ret holds its    *)
(* locals; a step folds one key of drained_elements, taken in any order    *)
(* (the order of a HashMap's keys).                                        *)
(***************************************************************************)
MaxPortfolio == 2

ChanceBetPool ==
    { <<1, 1, 1, 1, 1>>, <<1, 0, 0, 0, 0>>, <<2, 0, 0, 0, 0>>,
      <<0, 4, 0, 0, 0>>, <<1, 2, 0, 0, 4>>, <<0, 0, 3, 3, 0>> }

\* some portfolios of three and four bets
LongerPortfolios ==
    { << <<1, 0, 0, 0, 0>>, <<0, 4, 0, 0, 0>>, <<0, 0, 3, 3, 0>> >>,
      << <<1, 1, 1, 1, 1>>, <<1, 2, 0, 0, 4>>, <<2, 0, 0, 0, 0>> >>,
      << <<2, 0, 0, 0, 0>>, <<1, 0, 0, 0, 0>>, <<0, 4, 0, 0, 0>> >>,
      << <<0, 0, 3, 3, 0>>, <<1, 2, 0, 0, 4>>, <<1, 0, 0, 0, 0>>, <<1, 1, 1, 1, 1>> >> }

Portfolios ==
    UNION { [1..n -> ChanceBetPool] : n \in 1..MaxPortfolio } \cup LongerPortfolios

\* the payout of each bet for one unit: the product of the odds it selects
PortfolioOdds(odds, bets) == [k \in 1..Len(bets) |-> OddsProduct(odds, bets[k], 1)]

\* the five arenas hold the rotations of row (in sixtieths); column 0 is 1.0
RotatedMatrix(row) ==
    [a \in 1..NumArenas |->
        [p \in 0..NumPirates |-> IF p = 0 THEN ChanceDen ELSE Rotate(row, a - 1)[p]]]

\* matrices given directly: every pirate at 1/4; 1/2, 1/4, 1/6, 1/12
ChanceMatrices == { RotatedMatrix(<<15, 15, 15, 15>>), RotatedMatrix(<<30, 15, 10, 5>>) }

ChanceOdds == { RotatedOdds(<<2, 2, 2, 2>>), RotatedOdds(<<2, 3, 5, 13>>) }

\* opening odds whose probabilities are whole numbers of sixtieths
ChanceOpeningOdds ==
    { RotatedOdds(<<2, 2, 2, 2>>), RotatedOdds(<<2, 2, 2, 13>>),
      RotatedOdds(<<2, 5, 13, 13>>) }

\* a matrix of make_probabilities_rust in sixtieths
InSixtieths(std) ==
    [a \in 1..NumArenas |->
        [p \in 0..NumPirates |-> std[a][p] \div (ProbDen \div ChanceDen)]]

IsInSixtieths(std) ==
    \A a \in 1..NumArenas, p \in 0..NumPirates : std[a][p] % (ProbDen \div ChanceDen) = 0

\* build_chance_objects_rust(bets, bet_odds, probabilities) on a matrix
\* given by the caller
CallBuildChanceObjects ==
    \E bets \in Portfolios, odds \in ChanceOdds, probabilities \in ChanceMatrices :
        /\ fn = "none"
        /\ fn' = "expand_ib_object"
        /\ args' = <<bets, PortfolioOdds(odds, bets), probabilities>>
        /\ origin' = <<>>
        /\ UNCHANGED facades
        /\ ret' = expand_start(bets, PortfolioOdds(odds, bets))

\* the same on the probabilities make_probabilities_rust returns for the
\* opening odds of the round; origin keeps the opening odds
CallBuildChanceObjectsOfRound ==
    \E bets \in Portfolios, odds \in ChanceOpeningOdds :
        \E std \in make_probabilities_rust(odds) :
            /\ fn = "none"
            /\ IsInSixtieths(std)
            /\ fn' = "expand_ib_object"
            /\ args' = <<bets, PortfolioOdds(odds, bets), InSixtieths(std)>>
            /\ origin' = odds
            /\ UNCHANGED facades
            /\ ret' = expand_start(bets, PortfolioOdds(odds, bets))

\* for (ib_bet, winnings) in bets_to_ib: the next pair and its drained_elements
ExpandNextBet ==
    /\ fn = "expand_ib_object"
    /\ ret.drained_elements = {}
    /\ ret.bets_to_ib # <<>>
    /\ LET ib_bet == Head(ret.bets_to_ib)[1]
       IN  ret' = [ret EXCEPT !.bets_to_ib = Tail(ret.bets_to_ib),
                              !.ib_bet = ib_bet,
                              !.winnings = Head(ret.bets_to_ib)[2],
                              !.drained_elements =
                                  { ib_key \in DOMAIN ret.res :
                                      ib_doable(BitAnd(ib_bet, ib_key)) }]
    /\ UNCHANGED <<fn, args, origin, facades>>

\* for mut ib_key in drained_elements: one pass of the body
ExpandDrain ==
    /\ fn = "expand_ib_object"
    /\ \E ib_key \in ret.drained_elements :
          ret' = [drain_key(ret, ib_key) EXCEPT
                     !.drained_elements = ret.drained_elements \ {ib_key}]
    /\ UNCHANGED <<fn, args, origin, facades>>

\* expand_ib_object returned res: the win table and the Chances
BuildChanceObjectsReturn ==
    /\ fn = "expand_ib_object"
    /\ ret.drained_elements = {}
    /\ ret.bets_to_ib = <<>>
    /\ fn' = "build_chance_objects_rust"
    /\ ret' = build_chances(ret.res, args[3])
    /\ UNCHANGED <<args, origin, facades>>

NextChances ==
    \/ CallBuildChanceObjects
    \/ CallBuildChanceObjectsOfRound
    \/ ExpandNextBet
    \/ ExpandDrain
    \/ BuildChanceObjectsReturn

SpecChances == InitCall /\ [][NextChances]_vars

(***************************************************************************)
(* Properties of the odds aggregator                                       *)
(***************************************************************************)
\* the rows of the matrix sum to 1 over columns 1..4
RowsSumToOne(probabilities) ==
    \A a \in 1..NumArenas :
        probabilities[a][1] + probabilities[a][2] + probabilities[a][3]
            + probabilities[a][4] = ChanceDen

\* the sum of the probabilities of the first n Chances
RECURSIVE ProbabilitySum(_, _)
ProbabilitySum(chances, n) ==
    IF n = 0 THEN 0 ELSE ProbabilitySum(chances, n - 1) + chances[n].probability

\* C12: for any portfolio of bets with payouts and any probability matrix
\* whose rows sum to 1 over columns 1..4, the probabilities of all Chances
\* returned by build_chance_objects sum to 1 (exactly so in the rationals;
\* the f64 sum of at most 1,024 products differs by less than 1e-12).
C12_ChancesSumToOne ==
    (fn = "build_chance_objects_rust" /\ RowsSumToOne(args[3])) =>
        ProbabilitySum(ret.chances, Len(ret.chances)) = ChanceOne

\* three bets on the matrix 1/2, 1/4, 1/6, 1/12 with four or more Chances
C12_Witness ==
    /\ fn = "build_chance_objects_rust"
    /\ RowsSumToOne(args[3])
    /\ args[3] = RotatedMatrix(<<30, 15, 10, 5>>)
    /\ Len(args[1]) >= 3
    /\ Len(ret.chances) >= 4
    /\ ProbabilitySum(ret.chances, Len(ret.chances)) = ChanceOne

\* the sum of ib_prob over a set of keys
RECURSIVE KeysProbability(_, _)
KeysProbability(keys, probabilities) ==
    IF keys = {} THEN 0
    ELSE LET key == CHOOSE k \in keys : TRUE
         IN  ib_prob(key, probabilities) + KeysProbability(keys \ {key}, probabilities)

\* C13: the Chances are sorted strictly ascending by value, so no two share
\* a payout value: there is one Chance per payout value of the expanded
\* map, and its probability is the sum over all the keys with that payout.
C13_ChancesAscending ==
    fn = "build_chance_objects_rust" =>
        LET chances == ret.chances
            expanded == ret.expanded
        IN  /\ \A k \in 1..(Len(chances) - 1) : chances[k].value < chances[k + 1].value
            /\ { chances[k].value : k \in 1..Len(chances) }
                  = { expanded[key] : key \in DOMAIN expanded }
            /\ \A k \in 1..Len(chances) :
                  chances[k].probability =
                      KeysProbability({ key \in DOMAIN expanded :
                                          expanded[key] = chances[k].value }, args[3])

\* two keys with the same payout above 0 end in one Chance
C13_Witness ==
    /\ fn = "build_chance_objects_rust"
    /\ \E k1, k2 \in DOMAIN ret.expanded :
          k1 # k2 /\ ret.expanded[k1] = ret.expanded[k2] /\ ret.expanded[k1] > 0
    /\ Len(ret.chances) >= 3
    /\ Cardinality(DOMAIN ret.expanded) > Len(ret.chances)

\* the single bet [1,1,1,1,1] with the payout 32 of a board of odds 2
SingleBetOnTwos == args[1] = << <<1, 1, 1, 1, 1>> >> /\ args[2] = <<32>>

\* the values and probabilities of the Chances
ValuesAndProbabilities(chances) ==
    [k \in 1..Len(chances) |-> <<chances[k].value, chances[k].probability>>]

\* C14 as stated: the single bet [1,1,1,1,1] on a board where every pirate
\* has odds 2 yields exactly two Chances, value 32 with probability 1/1024
\* and the bust Chance at value 0 with probability 1023/1024.
C14_Original ==
    (fn = "build_chance_objects_rust" /\ SingleBetOnTwos
        /\ origin = RotatedOdds(<<2, 2, 2, 2>>)) =>
        ValuesAndProbabilities(ret.chances)
            = << <<0, 1023 * (ChanceOne \div 1024)>>, <<32, ChanceOne \div 1024>> >>

\* C14 amended: on a board where every pirate has odds 2 the probabilities
\* of make_probabilities_rust are 1/6 for every pirate, and the single bet
\* [1,1,1,1,1] yields exactly two Chances, the bust Chance at value 0 with
\* probability 1023/7776 and value 32 with probability 1/7776 (sum
\* 1024/7776); the probabilities are 1023/1024 and 1/1024 when the matrix
\* given to build_chance_objects holds 1/4 for every pirate.
C14_SingleBetAllTwos ==
    (fn = "build_chance_objects_rust" /\ SingleBetOnTwos) =>
        /\ origin = RotatedOdds(<<2, 2, 2, 2>>) =>
              /\ \A a \in 1..NumArenas, p \in 1..NumPirates : args[3][a][p] * 6 = ChanceDen
              /\ ValuesAndProbabilities(ret.chances)
                    = << <<0, 1023 * (ChanceOne \div 7776)>>, <<32, ChanceOne \div 7776>> >>
        /\ args[3] = RotatedMatrix(<<15, 15, 15, 15>>) =>
              ValuesAndProbabilities(ret.chances)
                  = << <<0, 1023 * (ChanceOne \div 1024)>>, <<32, ChanceOne \div 1024>> >>

C14_Witness ==
    /\ fn = "build_chance_objects_rust"
    /\ SingleBetOnTwos
    /\ origin = RotatedOdds(<<2, 2, 2, 2>>)
    /\ Len(ret.chances) = 2
    /\ ret.chances[2].value = 32
    /\ ret.chances[2].probability = 100000
    /\ ret.chances[2].cumulative = 102400000

\* the pirates of arena a (1..5) that binary accepts
PiratesIn(binary, a) ==
    { p \in 1..NumPirates :
        (binary \div (2 ^ (4 * (NumArenas - a) + (NumPirates - p)))) % 2 = 1 }

\* the number of outcomes (one pirate per arena) that binary accepts
OutcomesIn(binary) ==
    Cardinality(PiratesIn(binary, 1)) * Cardinality(PiratesIn(binary, 2))
        * Cardinality(PiratesIn(binary, 3)) * Cardinality(PiratesIn(binary, 4))
        * Cardinality(PiratesIn(binary, 5))

RECURSIVE OutcomesInAll(_)
OutcomesInAll(keys) ==
    IF keys = {} THEN 0
    ELSE LET key == CHOOSE k \in keys : TRUE
         IN  OutcomesIn(key) + OutcomesInAll(keys \ {key})

\* no outcome is accepted by both keys: in some arena they share no pirate
NoCommonOutcome(k1, k2) ==
    \E a \in 1..NumArenas : PiratesIn(k1, a) \cap PiratesIn(k2, a) = {}

\* every outcome is accepted by exactly one key: no two keys accept a
\* common outcome and the keys accept 4^5 = 1,024 outcomes in all
PartitionsOutcomes(keys) ==
    /\ \A k1, k2 \in keys : k1 # k2 => NoCommonOutcome(k1, k2)
    /\ OutcomesInAll(keys) = NumPirates ^ NumArenas

\* C15: throughout expand_ib_object (initially, after every key of
\* drained_elements and so after every bet is folded in) the keys of res
\* partition the 1,024-outcome space: every key is doable (every arena
\* nibble non-zero), every outcome choosing one pirate per arena is accepted
\* by exactly one key, and no insert has overwritten a live key.
C15_KeysPartition ==
    fn = "expand_ib_object" =>
        /\ \A key \in DOMAIN ret.res :
              \A a \in 1..NumArenas : PiratesIn(key, a) # {}
        /\ PartitionsOutcomes(DOMAIN ret.res)
        /\ ret.overwritten = 0

\* three bets folded in, eight keys or more
C15_Witness ==
    /\ fn = "expand_ib_object"
    /\ Len(args[1]) >= 3
    /\ ret.bets_to_ib = <<>>
    /\ ret.drained_elements = {}
    /\ Cardinality(DOMAIN ret.res) >= 8

OutcomesOf(key) ==
    { w \in [1..NumArenas -> 1..NumPirates] :
        \A a \in 1..NumArenas : w[a] \in PiratesIn(key, a) }

\* bet wins on outcome w: every pirate it selects is the winner of its arena
BetWins(bet, w) == \A a \in 1..NumArenas : bet[a] = 0 \/ bet[a] = w[a]

\* the sum of bet_odds over the bets k.. of the portfolio that win on w
RECURSIVE WinningOdds(_, _, _, _)
WinningOdds(bets, bet_odds, w, k) ==
    IF k > Len(bets) THEN 0
    ELSE (IF BetWins(bets[k], w) THEN bet_odds[k] ELSE 0)
            + WinningOdds(bets, bet_odds, w, k + 1)

ExpandReturns ==
    /\ fn = "expand_ib_object"
    /\ ret.bets_to_ib = <<>>
    /\ ret.drained_elements = {}

\* C22: for every portfolio and every outcome (one winning pirate per
\* arena) the value stored under the key of the result of expand_ib_object
\* that accepts the outcome is the sum of bet_odds over exactly the bets
\* whose every selected pirate wins its arena in that outcome (0 when no bet
\* wins), every copy of a duplicate bet counted.
C22_ValueIsWinnings ==
    ExpandReturns =>
        \A key \in DOMAIN ret.res :
            \A w \in OutcomesOf(key) :
                ret.res[key] = WinningOdds(args[1], args[2], w, 1)

\* the same bet listed twice at odds 3: the key of its pirate holds 6, the
\* key of the other three pirates of the arena 0
C22_Witness ==
    /\ ExpandReturns
    /\ args[1] = << <<2, 0, 0, 0, 0>>, <<2, 0, 0, 0, 0>> >>
    /\ args[2] = <<3, 3>>
    /\ Cardinality(DOMAIN ret.res) = 2
    /\ \E key \in DOMAIN ret.res : ret.res[key] = 6
    /\ \E key \in DOMAIN ret.res : ret.res[key] = 0

\* the map the loop of expand_ib_object ends with from the state st when the
\* keys of drained_elements are taken in ascending order
RECURSIVE RunAscending(_)
RunAscending(st) ==
    IF st.drained_elements # {}
    THEN LET ib_key == CHOOSE k \in st.drained_elements :
                           \A other \in st.drained_elements : k <= other
         IN  RunAscending([drain_key(st, ib_key) EXCEPT
                              !.drained_elements = st.drained_elements \ {ib_key}])
    ELSE IF st.bets_to_ib # <<>>
    THEN LET ib_bet == Head(st.bets_to_ib)[1]
         IN  RunAscending([st EXCEPT !.bets_to_ib = Tail(st.bets_to_ib),
                                     !.ib_bet = ib_bet,
                                     !.winnings = Head(st.bets_to_ib)[2],
                                     !.drained_elements =
                                         { ib_key \in DOMAIN st.res :
                                             ib_doable(BitAnd(ib_bet, ib_key)) }])
    ELSE st.res

\* bets and bet_odds listed in another order
Reordered(list, order) == [k \in 1..Len(list) |-> list[order[k]]]

\* C23: expand_ib_object is deterministic: for fixed bets and payouts the
\* map returned is the same whatever order the hash map yields the
\* snapshot of the matching keys in and whatever order the portfolio lists
\* the bets in: it is the map of the run that takes the keys in ascending
\* order, on every listing of the same bets.
C23_Deterministic ==
    ExpandReturns =>
        \A order \in Permutations(1..Len(args[1])) :
            ret.res = RunAscending(expand_start(Reordered(args[1], order),
                                                Reordered(args[2], order)))

\* three bets or more, the first listed after the second in key order, and
\* at least eight keys, so that more than one key was drained for a bet
C23_Witness ==
    /\ ExpandReturns
    /\ Len(args[1]) >= 3
    /\ bet_ib(args[1][1], 1, 0) > bet_ib(args[1][2], 1, 0)
    /\ Cardinality(DOMAIN ret.res) >= 8

(***************************************************************************)
(* Round facade: the pyclass NeoFoodClub of src/src/nfc.rs.  facades[h] is *)
(* the field inner of the object with handle h; an object owns its inner   *)
(* by value.  The methods of neofoodclub::nfc::NeoFoodClub that the        *)
(* wrapper calls are modelled by what they do to bet_amount, modifier and  *)
(* the round data.  A result is <<"Ok", value>> or <<"Err", kind>>.         *)
(***************************************************************************)
PyValueError == <<"Err", "PyValueError">>

Ok(value) == <<"Ok", value>>

IsErr(result) == result[1] = "Err"

\* Option<u8> is None or 0..255
ProbabilityModelAccepted == {0, 1}

\* every tag above 1 is accepted as the original model
convert_probability_model_int_to_enum_m1(probability_model) ==
    IF probability_model = 1 THEN Ok("MultinomialLogitModel")
    ELSE IF probability_model = None THEN Ok("None")
    ELSE Ok("OriginalModel")

convert_probability_model_int_to_enum(probability_model) ==
    IF probability_model = 0 THEN Ok("OriginalModel")
    ELSE IF probability_model = 1 THEN Ok("MultinomialLogitModel")
    ELSE IF probability_model = None THEN Ok("None")
    ELSE PyValueError

\* neofoodclub::nfc::NeoFoodClub::from_json and from_url: the round data
\* parsed from the text, bet_amount, the model, the modifier (the empty
\* modifier when none is given)
inner_from_json(json, bet_amount, probability_model, modifier) ==
    [round |-> json, bet_amount |-> bet_amount, probability_model |-> probability_model,
     modifier |-> IF modifier = None THEN 0 ELSE modifier]

\* neofoodclub::nfc::NeoFoodClub::copy: a fresh value on the same round data
\* and bet_amount, with the modifier given or else a clone of its own
inner_copy(inner, probability_model, modifier) ==
    [round |-> inner.round, bet_amount |-> inner.bet_amount,
     probability_model |-> probability_model,
     modifier |-> IF modifier = None THEN inner.modifier ELSE modifier]

inner_set_bet_amount(inner, bet_amount) == [inner EXCEPT !.bet_amount = bet_amount]

inner_with_modifier(inner, modifier) == [inner EXCEPT !.modifier = modifier]

\* the number of arenas with a pirate in pirates_binary
ArenasSelected(pirates_binary) ==
    Cardinality({ a \in 1..NumArenas : BitAnd(pirates_binary, BIT_MASKS[a]) # 0 })

\* neofoodclub::nfc::NeoFoodClub::make_tenbet_bets: Err unless 1..3 arenas
\* are selected
inner_make_tenbet_bets(inner, pirates_binary) ==
    IF ArenasSelected(pirates_binary) \in 1..3
    THEN Ok(<<"Bets", "tenbet", pirates_binary>>) ELSE <<"Err", "InvalidInput">>

\* neofoodclub::nfc::NeoFoodClub::make_bets_from_hash: Err on a letter
\* outside a..y
inner_make_bets_from_hash(inner, bets_hash) ==
    IF \A k \in 1..Len(bets_hash) : bets_hash[k] \in 97..121
    THEN Ok(<<"Bets", "hash", bets_hash>>) ELSE <<"Err", "InvalidInput">>

\* NeoFoodClub::new, from_json and from_url on the objects heap: the
\* objects afterwards and the result (the handle of the new object)
new(heap, json, bet_amount, probability_model, modifier) ==
    LET model == convert_probability_model_int_to_enum(probability_model)
    IN  IF IsErr(model) THEN <<heap, PyValueError>>
        ELSE <<Append(heap, inner_from_json(json, bet_amount, model[2], modifier)),
               Ok(Len(heap) + 1)>>

from_json(heap, json, bet_amount, probability_model, modifier) ==
    new(heap, json, bet_amount, probability_model, modifier)

from_url(heap, url, bet_amount, probability_model, modifier) ==
    new(heap, url, bet_amount, probability_model, modifier)

\* NeoFoodClub::copy: the object stays as it is, the copy is a new object
copy(heap, self, probability_model, modifier) ==
    LET model == convert_probability_model_int_to_enum(probability_model)
    IN  IF IsErr(model) THEN <<heap, PyValueError>>
        ELSE <<Append(heap, inner_copy(heap[self], model[2], modifier)),
               Ok(Len(heap) + 1)>>

set_bet_amount(heap, self, bet_amount) ==
    <<[heap EXCEPT ![self] = inner_set_bet_amount(heap[self], bet_amount)], Ok("None")>>

\* the modifier reaches every object on the same round data
with_modifier_m1(heap, self, modifier) ==
    <<[h \in 1..Len(heap) |->
          IF heap[h].round = heap[self].round
          THEN inner_with_modifier(heap[h], modifier) ELSE heap[h]],
      Ok("None")>>

with_modifier(heap, self, modifier) ==
    <<[heap EXCEPT ![self] = inner_with_modifier(heap[self], modifier)], Ok("None")>>

\* a failed call drops the bet amount
make_tenbet_bets_m1(heap, self, pirates_binary) ==
    LET result == inner_make_tenbet_bets(heap[self], pirates_binary)
    IN  IF IsErr(result)
        THEN <<[heap EXCEPT ![self] = inner_set_bet_amount(heap[self], None)], PyValueError>>
        ELSE <<heap, result>>

\* &self: the result of the inner call, its Err mapped to PyValueError
make_tenbet_bets(heap, self, pirates_binary) ==
    LET result == inner_make_tenbet_bets(heap[self], pirates_binary)
    IN  <<heap, IF IsErr(result) THEN PyValueError ELSE result>>

make_bets_from_hash(heap, self, bets_hash) ==
    LET result == inner_make_bets_from_hash(heap[self], bets_hash)
    IN  <<heap, IF IsErr(result) THEN PyValueError ELSE result>>

\* the other methods, all of them on &self
ReadOnlyMethods ==
    { "modifier", "arenas", "get_arena", "get_bet_amount", "winners", "winners_binary",
      "is_over", "round", "start", "start_nst", "current_odds", "custom_odds",
      "opening_odds", "pirates", "timestamp", "last_change", "modified", "max_ters",
      "foods", "changes", "max_amount_of_bets", "get_winning_pirates",
      "make_random_bets", "make_max_ter_bets", "make_units_bets", "make_gambit_bets",
      "make_best_gambit_bets", "make_winning_gambit_bets", "make_random_gambit_bets",
      "make_crazy_bets", "make_bustproof_bets", "make_bets_from_binaries",
      "make_bets_from_indices", "make_bets_from_array_indices", "get_win_units",
      "get_win_np", "__repr__", "make_url", "is_outdated_lock", "to_json" }

\* a method on &self: what it returns is a function of the object
read_only(heap, self, method) == <<heap, Ok(<<method, heap[self]>>)>>

(***************************************************************************)
(* Calls on the facade                                                     *)
(***************************************************************************)
MaxFacades == 2

\* round texts (JSON or URL)
RoundTexts == {"round 9000"}

\* Option<u32>
FacadeBetAmounts == {None, 8000}

\* Option<Modifier>, a modifier being its flags value
FacadeModifiers == {None, 0, 1}

\* Option<u8>: absent, an accepted tag, the two ends of the refused range
ProbabilityModelTags == {None, 1, 2, 255}

\* 0x80000 one arena; 0x88880 four arenas; 0 none
TenbetBinaries == {524288, 559232, 0}

\* "faa" and "fz"
BetsHashes == {<<102, 97, 97>>, <<102, 122>>}

\* the state after a call: result[1] the objects, result[2] what it returned
Returns(name, arguments, result) ==
    /\ Len(result[1]) <= MaxFacades
    /\ fn' = name
    /\ args' = arguments
    /\ origin' = <<>>
    /\ ret' = result[2]
    /\ facades' = result[1]

CallNew ==
    \E json \in RoundTexts, bet_amount \in FacadeBetAmounts,
       probability_model \in ProbabilityModelTags, modifier \in FacadeModifiers :
        Returns("new", <<json, bet_amount, probability_model, modifier>>,
                new(facades, json, bet_amount, probability_model, modifier))

CallFromJson ==
    \E json \in RoundTexts, bet_amount \in FacadeBetAmounts,
       probability_model \in ProbabilityModelTags, modifier \in FacadeModifiers :
        Returns("from_json", <<json, bet_amount, probability_model, modifier>>,
                from_json(facades, json, bet_amount, probability_model, modifier))

CallFromUrl ==
    \E url \in RoundTexts, bet_amount \in FacadeBetAmounts,
       probability_model \in ProbabilityModelTags, modifier \in FacadeModifiers :
        Returns("from_url", <<url, bet_amount, probability_model, modifier>>,
                from_url(facades, url, bet_amount, probability_model, modifier))

CallCopy ==
    \E self \in 1..Len(facades), probability_model \in ProbabilityModelTags,
       modifier \in FacadeModifiers :
        Returns("copy", <<self, probability_model, modifier>>,
                copy(facades, self, probability_model, modifier))

CallSetBetAmount ==
    \E self \in 1..Len(facades), bet_amount \in FacadeBetAmounts :
        Returns("set_bet_amount", <<self, bet_amount>>,
                set_bet_amount(facades, self, bet_amount))

CallWithModifier ==
    \E self \in 1..Len(facades), modifier \in FacadeModifiers \ {None} :
        Returns("with_modifier", <<self, modifier>>,
                with_modifier(facades, self, modifier))

CallMakeTenbetBets ==
    \E self \in 1..Len(facades), pirates_binary \in TenbetBinaries :
        Returns("make_tenbet_bets", <<self, pirates_binary>>,
                make_tenbet_bets(facades, self, pirates_binary))

CallMakeBetsFromHash ==
    \E self \in 1..Len(facades), bets_hash \in BetsHashes :
        Returns("make_bets_from_hash", <<self, bets_hash>>,
                make_bets_from_hash(facades, self, bets_hash))

CallReadOnly ==
    \E self \in 1..Len(facades), method \in ReadOnlyMethods :
        Returns(method, <<self>>, read_only(facades, self, method))

NextFacade ==
    \/ CallNew
    \/ CallFromJson
    \/ CallFromUrl
    \/ CallCopy
    \/ CallSetBetAmount
    \/ CallWithModifier
    \/ CallMakeTenbetBets
    \/ CallMakeBetsFromHash
    \/ CallReadOnly

SpecFacade == InitCall /\ [][NextFacade]_vars

(***************************************************************************)
(* Properties of the facade                                                *)
(***************************************************************************)
Setters == {"set_bet_amount", "with_modifier"}

\* bet_amount, modifier and the round data of the object
FacadeState(inner) == <<inner.bet_amount, inner.modifier, inner.round>>

\* C16: of all the operations of the facade only the two setters
\* (set_bet_amount and with_modifier) change the state of a facade: every
\* other call, make_tenbet_bets and make_bets_from_hash that fail included,
\* leaves bet_amount, modifier and the round data of every existing facade
\* as they were, whatever calls came before.
C16_OnlySettersChange ==
    [][fn' \notin Setters =>
          \A h \in 1..Len(facades) :
              /\ h \in 1..Len(facades')
              /\ FacadeState(facades'[h]) = FacadeState(facades[h])]_vars

\* make_tenbet_bets failed on a facade whose bet_amount and modifier had
\* been set
C16_Witness ==
    /\ fn = "make_tenbet_bets"
    /\ ret = PyValueError
    /\ facades[args[1]].bet_amount = 8000
    /\ facades[args[1]].modifier = 1

C19_ProbabilityModelTag ==
    /\ \A v \in 0..U8Max :
          IsErr(convert_probability_model_int_to_enum(v)) <=> v \in 2..255
    /\ ~IsErr(convert_probability_model_int_to_enum(None))
    /\ [][fn' \in {"new", "from_json", "from_url", "copy"} =>
             LET tag == IF fn' = "copy" THEN args'[2] ELSE args'[3]
             IN  IF tag = None \/ tag \in ProbabilityModelAccepted
                 THEN ~IsErr(ret') /\ Len(facades') = Len(facades) + 1
                 ELSE ret' = PyValueError /\ facades' = facades]_vars

C19_Witness ==
    /\ fn = "copy"
    /\ args[2] = 255
    /\ ret = PyValueError
    /\ Len(facades) = 1
    /\ facades[1].bet_amount = 8000

(***************************************************************************)
(* Bets: the portfolio object of bets.rs, a wrapper of the crate's Bets    *)
(***************************************************************************)
\* the crate's Bets::get_indices, the index tuples of the bets in the order
\* the portfolio lists them (a portfolio is an ordered sequence of bets)
get_indices(inner) == inner.indices

\* Bets::indices, the getter: the tuples of get_indices as a tuple
indices(inner) == Ok(get_indices(inner))

\* Bets::__eq__: Vec equality of the two index lists, element by element
__eq__(self, other) == get_indices(self) = get_indices(other)

(***************************************************************************)
(* Calls on Bets objects                                                   *)
(***************************************************************************)
MaxListed == 2

\* the bets a portfolio lists
ListedBets == {<<1, 0, 0, 0, 0>>, <<0, 2, 0, 0, 0>>, <<1, 2, 0, 0, 4>>}

\* the lists of 1..MaxListed distinct bets, in every order
BetLists ==
    UNION {{l \in [1..n -> ListedBets] : \A i, j \in 1..n : i # j => l[i] # l[j]} :
             n \in 1..MaxListed}

\* Option<Vec<Option<u32>>>: no amounts, or one amount for every bet
AmountsOf(l) == {<<"None">>, <<"Some", [i \in 1..Len(l) |-> 50]>>,
                 <<"Some", [i \in 1..Len(l) |-> 8000]>>}

BetsObjects == UNION {{[indices |-> l, bet_amounts |-> a] : a \in AmountsOf(l)} :
                        l \in BetLists}

CallBetsEq ==
    /\ fn = "none"
    /\ \E self \in BetsObjects, other \in BetsObjects :
          /\ fn' = "__eq__"
          /\ args' = <<self, other>>
          /\ ret' = __eq__(self, other)
    /\ origin' = <<>>
    /\ UNCHANGED facades

CallBetsIndices ==
    /\ fn = "none"
    /\ \E self \in BetsObjects :
          /\ fn' = "indices"
          /\ args' = <<self>>
          /\ ret' = indices(self)
    /\ origin' = <<>>
    /\ UNCHANGED facades

NextBets == CallBetsEq \/ CallBetsIndices

SpecBets == InitCall /\ [][NextBets]_vars

(***************************************************************************)
(* Properties of Bets                                                      *)
(***************************************************************************)
\* the set of index tuples a Bets object holds
TuplesOf(inner) == {inner.indices[i] : i \in 1..Len(inner.indices)}

\* C18: portfolio equality is by sorted index tuples: two Bets objects
\* holding the same set of 5-tuples compare equal even when their bets are
\* listed in a different order, and bet amounts do not affect equality.
C18_Original ==
    fn = "__eq__" => (ret <=> TuplesOf(args[1]) = TuplesOf(args[2]))

(***************************************************************************)
(* Arena: the pyclass of arena.rs.  inner.pirates are the four pirates of  *)
(* the arena, each its id; inner.winner is 0 while the round is not over.  *)
(* A usize is the sequence of its 16-bit limbs, least significant first.   *)
(***************************************************************************)
\* usize on a 64-bit target
UsizeLimbs == 4

LimbBase == 65536

\* x as usize, x a u8
as_usize(x) == [i \in 1..UsizeLimbs |-> IF i = 1 THEN x ELSE 0]

\* u - 1 modulo 2^64
wrapping_sub_one(u) ==
    LET borrow[i \in 0..UsizeLimbs] == IF i = 0 THEN TRUE ELSE borrow[i - 1] /\ u[i] = 0
    IN  [i \in 1..UsizeLimbs |-> IF borrow[i - 1] THEN (u[i] + LimbBase - 1) % LimbBase
                                 ELSE u[i]]

\* the panic "attempt to subtract with overflow"
Panic == <<"Panic", <<>>>>

\* u - 1 on usize: with overflow checks (a debug build) 0 - 1 panics, without
\* them (a release build) it wraps
usize_sub_one(u) ==
    IF u = as_usize(0) THEN {Panic, <<"Ok", wrapping_sub_one(u)>>}
    ELSE {<<"Ok", wrapping_sub_one(u)>>}

\* slice.get(index): the element at index (0-based) if there is one
slice_get(slice, index) ==
    IF (\A i \in 2..UsizeLimbs : index[i] = 0) /\ index[1] < Len(slice)
    THEN <<"Some", <<slice[index[1] + 1]>> >>
    ELSE <<"None", <<>>>>

\* Arena::winner_index
winner_index(inner) == inner.winner

\* Arena::winner_pirate: what the call can end with
winner_pirate(inner) ==
    { IF index[1] = "Panic" THEN Panic ELSE slice_get(inner.pirates, index[2]) :
        index \in usize_sub_one(as_usize(inner.winner)) }

(***************************************************************************)
(* Calls on Arena objects                                                  *)
(***************************************************************************)
\* the ids of the pirates an arena of the model draws from
PirateIds == 1..5

\* the four distinct pirates of an arena, in order
PirateRows ==
    { row \in [1..NumPirates -> PirateIds] :
        \A i, j \in 1..NumPirates : i # j => row[i] # row[j] }

ArenaObjects == { [pirates |-> row, winner |-> w] : row \in PirateRows, w \in 0..NumPirates }

CallWinnerIndex ==
    /\ fn = "none"
    /\ \E inner \in ArenaObjects :
          /\ fn' = "winner_index"
          /\ args' = <<inner>>
          /\ ret' = winner_index(inner)
    /\ origin' = <<>>
    /\ UNCHANGED facades

CallWinnerPirate ==
    /\ fn = "none"
    /\ \E inner \in ArenaObjects :
          /\ fn' = "winner_pirate"
          /\ args' = <<inner>>
          /\ ret' \in winner_pirate(inner)
    /\ origin' = <<>>
    /\ UNCHANGED facades

NextArena == CallWinnerIndex \/ CallWinnerPirate

SpecArena == InitCall /\ [][NextArena]_vars

(***************************************************************************)
(* Properties of Arena                                                     *)
(***************************************************************************)
\* C25: winner_pirate on an arena whose winner is 0 (round not over) returns
\* None, it neither fails nor returns a pirate: winner - 1 does not
\* underflow into a fault or a valid slot; for winner in 1..4 it returns the
\* pirate at position winner - 1.
C25_Original ==
    fn = "winner_pirate" =>
        /\ args[1].winner = 0 => ret = <<"None", <<>>>>
        /\ args[1].winner \in 1..NumPirates =>
              ret = <<"Some", <<args[1].pirates[args[1].winner]>> >>

====
